---- MODULE Spec2Model ----
(***************************************************************************)
(* afxdp-rs: the memory-mapped packet-buffer substrate.                    *)
(*   src/src/buf.rs        the Buf trait                                   *)
(*   src/src/buf_mmap.rs   BufMmap, the Buf implementation over one slot   *)
(*   src/src/mmap_area.rs  MmapArea, the mapping and the initial buffers   *)
(*                                                                         *)
(* Scale.  The length type of a buffer is u16 and the reserved headroom is *)
(* the crate constant AF_XDP_RESERVED.  The model keeps both as named      *)
(* constants but at a reduced scale (LenBits bits instead of 16, a         *)
(* reserved headroom of 2 bytes), so that slot lengths 0..MaxBufLen cross  *)
(* every threshold the code has: buf_len < reserved, buf_len < 2*reserved, *)
(* buf_len > 3*reserved, buf_len - headroom > u16::MAX.  usize arithmetic  *)
(* is modelled exactly on                                                  *)
(* the inputs of the model: a subtraction that goes below zero panics in a *)
(* build with overflow checks and wraps to 2^64 - deficit without them     *)
(* (see UsizeSub); the products buf_num * buf_len and i * buf_len of the   *)
(* model's inputs are far below 2^64 and never wrap.                       *)
(***************************************************************************)
EXTENDS Integers, Sequences, FiniteSets, TLC

\* ------------------------------------------------------------------ bounds
\* The buf_num values MmapArea::new is called with.  Buffers do not interact,
\* so two of them show every relation between one buffer and another.
BufNums == 0..2
\* Largest buf_len passed to MmapArea::new.
MaxBufLen == 10
\* Largest buf_len of an arena of more than one buffer.
MaxSharedLen == 3
\* Largest buf_len of an arena whose bytes are written.
MaxMemLen == 5
\* set_headroom is passed every headroom up to the slot length plus MaxOver.
MaxOver == 1
\* Largest number of Arc<MmapArea> handles alive at once.
MaxHandles == 2
\* Largest byte value written into a slot.
MaxByte == 1
\* Largest number of bytes written through the buffers in one behaviour.
MaxWrites == 1

\* --------------------------------------------------------------- constants
\* Width of the length type (len: u16), at the model's scale.
LenBits == 3
U16_MAX == (2 ^ LenBits) - 1
\* crate::AF_XDP_RESERVED, at the model's scale.
AF_XDP_RESERVED == 2
\* libc::MAP_FAILED, (void *) -1.
MAP_FAILED == -1
\* The addresses the kernel may place the mapping at.
KernelAddrs == {64}

Bytes == 0..MaxByte
\* The headrooms passed to set_headroom.
HeadroomArgs == 0..(MaxBufLen + MaxOver)

VARIABLES
    overflow_checks, \* the build: TRUE panics on integer overflow, FALSE wraps
    mmaps,           \* the mmap calls made: <<[len, ret]>>
    munmaps,         \* the munmap calls made: <<[addr, len]>>
    arena,           \* <<>> or <<the MmapArea behind the Arc>>
    strong,          \* the Arc's strong count
    bufs,            \* the Vec<BufMmap> returned by new, with each buffer's liveness
    mem,             \* the bytes of the mapping, by absolute address
    writes,          \* bytes written so far
    last             \* the last call: its method, outcome and returned value

vars == <<overflow_checks, mmaps, munmaps, arena, strong, bufs, mem, writes, last>>

\* ------------------------------------------------------------- arithmetic
Ok(v) == [ok |-> TRUE, wrapped |-> FALSE, val |-> v]
Panic == [ok |-> FALSE, wrapped |-> FALSE, val |-> 0]
\* A usize of value 2^64 - d, the result of a wrapped subtraction.
Wrapped(d) == [ok |-> TRUE, wrapped |-> TRUE, val |-> d]

\* a - b on usize: below zero it panics with overflow checks, else wraps.
UsizeSub(a, b) ==
    IF a >= b THEN Ok(a - b)
    ELSE IF overflow_checks THEN Panic
    ELSE Wrapped(b - a)

\* n > x for a usize n of the model and a usize x: a wrapped x is 2^64 - d,
\* above every n the model passes.
UsizeGt(n, x) == IF x.wrapped THEN FALSE ELSE n > x.val

\* u16::try_from(x).unwrap()
U16TryFromUnwrap(x) ==
    IF ~x.ok THEN Panic
    ELSE IF x.wrapped THEN Panic
    ELSE IF x.val > U16_MAX THEN Panic
    ELSE Ok(x.val)

\* ---------------------------------------------------------------- BufMmap
\* T::default(), the metadata a buffer is created with.
UserDefault == "default"
\* The metadata values a caller stores.
Users == {UserDefault, "marked"}

\* The outcome of a &mut self method: the buffer afterwards, and whether it panicked.
Done(b) == [res |-> "ok", buf |-> b]
Abort(b) == [res |-> "panic", buf |-> b]

\* A slice: its first address and its length; ok = FALSE when slicing panicked.
Slice(p, n) == [ok |-> TRUE, ptr |-> p, len |-> n]
NoSlice == [ok |-> FALSE, ptr |-> 0, len |-> 0]

\* Mutant of get_data: the slice starts at the view's first byte.
get_data_ignoring_headroom(b) == Slice(b.data.ptr, b.data.len)

\* &self.data[self.headroom..]: panics when headroom > data.len().
get_data(b) ==
    IF b.headroom > b.data.len THEN NoSlice
    ELSE Slice(b.data.ptr + b.headroom, b.data.len - b.headroom)

get_data_mut(b) == get_data(b)

\* &self.data[0..]
get_data_with_headroom(b) == Slice(b.data.ptr, b.data.len)

get_data_with_headroom_mut(b) == get_data_with_headroom(b)

\* Mutant of get_capacity: "as u16" in place of try_from, which truncates.
get_capacity_truncating(b) ==
    LET d == UsizeSub(b.data.len, b.headroom) IN
    IF ~d.ok THEN Panic
    ELSE IF d.wrapped THEN Ok((U16_MAX + 1 - (d.val % (U16_MAX + 1))) % (U16_MAX + 1))
    ELSE Ok(d.val % (U16_MAX + 1))

\* u16::try_from(self.data.len() - self.headroom).unwrap()
get_capacity(b) == U16TryFromUnwrap(UsizeSub(b.data.len, b.headroom))

get_len(b) == b.len

get_headroom(b) == b.headroom

get_user(b) == b.user

\* *buf.get_user_mut() = u: the store through the reference it returns.
get_user_mut(b, u) == [b EXCEPT !.user = u]

\* Mutant of set_len: a length above the capacity is truncated to it.
set_len_truncating(b, len) ==
    LET cap == get_capacity(b) IN
    IF ~cap.ok THEN Abort(b)
    ELSE IF len > cap.val THEN Done([b EXCEPT !.len = cap.val])
    ELSE Done([b EXCEPT !.len = len])

\* if len > self.get_capacity() { panic!(..) }  self.len = len;
set_len(b, len) ==
    LET cap == get_capacity(b) IN
    IF ~cap.ok THEN Abort(b)
    ELSE IF len > cap.val THEN Abort(b)
    ELSE Done([b EXCEPT !.len = len])

\* Mutant of set_headroom: an accepted headroom resets the length.
set_headroom_clearing_len(b, headroom) ==
    LET cap == get_capacity(b) IN
    IF ~cap.ok THEN Abort(b)
    ELSE LET room == UsizeSub(cap.val, b.headroom) IN
         IF ~room.ok THEN Abort(b)
         ELSE IF UsizeGt(headroom, room) THEN Abort(b)
         ELSE Done([b EXCEPT !.headroom = headroom, !.len = 0])

\* if headroom > self.get_capacity() as usize - self.headroom { panic!(..) }
\* self.headroom = headroom;
set_headroom(b, headroom) ==
    LET cap == get_capacity(b) IN
    IF ~cap.ok THEN Abort(b)
    ELSE LET room == UsizeSub(cap.val, b.headroom) IN
         IF ~room.ok THEN Abort(b)
         ELSE IF UsizeGt(headroom, room) THEN Abort(b)
         ELSE Done([b EXCEPT !.headroom = headroom])

\* impl Drop for BufMmap: fn drop(&mut self) {}
drop_BufMmap(b) == [b EXCEPT !.alive = FALSE]

\* --------------------------------------------------------------- MmapArea
\* flags = MAP_PRIVATE | MAP_ANONYMOUS, plus MAP_HUGETLB when options.huge_tlb.
MmapFlags(options) ==
    {"MAP_PRIVATE", "MAP_ANONYMOUS"} \cup (IF options.huge_tlb THEN {"MAP_HUGETLB"} ELSE {})

\* What mmap(NULL, len, PROT_READ | PROT_WRITE, flags, -1, 0) may return: the
\* kernel refuses a length of 0 (EINVAL) and may refuse any other request.
mmap(len, flags) ==
    IF len = 0 THEN {MAP_FAILED} ELSE KernelAddrs \cup {MAP_FAILED}

\* MmapArea { buf_num, buf_len, ptr, phantom }
MmapArea(buf_num, buf_len, ptr) == [buf_num |-> buf_num, buf_len |-> buf_len, ptr |-> ptr]

\* Mutant of NewBuf: the slots are carved one byte too close to each other.
NewBuf_overlapping(ma, i) ==
    LET addr == i * ma.buf_len IN
    [addr |-> addr,
     len |-> 0,
     data |-> [ptr |-> ma.ptr + i * (ma.buf_len - 1), len |-> ma.buf_len],
     user |-> UserDefault,
     headroom |-> AF_XDP_RESERVED,
     alive |-> TRUE]

\* The buffer of slot i (0-based) built by the loop of new.
NewBuf(ma, i) ==
    LET addr == i * ma.buf_len IN
    [addr |-> addr,
     len |-> 0,
     data |-> [ptr |-> ma.ptr + addr, len |-> ma.buf_len],
     user |-> UserDefault,
     headroom |-> AF_XDP_RESERVED,
     alive |-> TRUE]

\* for i in 0..buf_num { ... bufs.push(buf) }
NewBufs(ma) == [i \in 1..ma.buf_num |-> NewBuf(ma, i - 1)]

get_ptr(ma) == ma.ptr

get_buf_num(ma) == ma.buf_num

\* Mutant of get_buf_len: it reads the other dimension.
get_buf_len_wrong_field(ma) == ma.buf_num

get_buf_len(ma) == ma.buf_len

\* Mutant of drop_MmapArea: it releases one slot, not buf_num of them.
drop_MmapArea_one_slot(ma) ==
    IF ma.ptr = MAP_FAILED THEN <<>>
    ELSE <<[addr |-> ma.ptr, len |-> ma.buf_len]>>

\* impl Drop for MmapArea: the munmap calls it makes.
drop_MmapArea(ma) ==
    IF ma.ptr = MAP_FAILED THEN <<>>
    ELSE <<[addr |-> ma.ptr, len |-> ma.buf_num * ma.buf_len]>>

\* ------------------------------------------------------------------- state
\* A call as its caller sees it: the method, how it ended, the value returned.
Call(op, res, ret) == [op |-> op, res |-> res, ret |-> ret]

\* The mapping exists: mmap succeeded and no munmap released it.
Mapped == mmaps # <<>> /\ mmaps[1].ret # MAP_FAILED /\ munmaps = <<>>

ZeroMem(base, len) == [a \in base..(base + len - 1) |-> 0]

Init ==
    /\ overflow_checks \in BOOLEAN
    /\ mmaps = <<>>
    /\ munmaps = <<>>
    /\ arena = <<>>
    /\ strong = 0
    /\ bufs = <<>>
    /\ mem = ZeroMem(0, 0)
    /\ writes = 0
    /\ last = Call("start", "ok", 0)

\* Mutant of New: the MAP_FAILED check is missing.
New_unchecked(buf_num, buf_len, options) ==
    /\ mmaps = <<>>
    /\ \E ptr \in mmap(buf_num * buf_len, MmapFlags(options)) :
        /\ mmaps' = <<[len |-> buf_num * buf_len, ret |-> ptr]>>
        /\ LET ma == MmapArea(buf_num, buf_len, ptr) IN
            /\ arena' = <<ma>>
            /\ strong' = 1
            /\ bufs' = NewBufs(ma)
            /\ mem' = IF ptr = MAP_FAILED THEN mem ELSE ZeroMem(ptr, buf_num * buf_len)
            /\ last' = Call("new", "ok", 0)
    /\ UNCHANGED <<overflow_checks, munmaps, writes>>

\* MmapArea::new(buf_num, buf_len, options)
New(buf_num, buf_len, options) ==
    /\ mmaps = <<>>
    /\ \E ptr \in mmap(buf_num * buf_len, MmapFlags(options)) :
        /\ mmaps' = <<[len |-> buf_num * buf_len, ret |-> ptr]>>
        /\ IF ptr = MAP_FAILED
           THEN /\ last' = Call("new", "err", 0)
                /\ UNCHANGED <<arena, strong, bufs, mem>>
           ELSE LET ma == MmapArea(buf_num, buf_len, ptr) IN
                /\ arena' = <<ma>>
                /\ strong' = 1
                /\ bufs' = NewBufs(ma)
                /\ mem' = ZeroMem(ptr, buf_num * buf_len)
                /\ last' = Call("new", "ok", 0)
    /\ UNCHANGED <<overflow_checks, munmaps, writes>>

\* Arc::clone on the handle.
CloneHandle ==
    /\ strong >= 1
    /\ strong < MaxHandles
    /\ strong' = strong + 1
    /\ last' = Call("clone", "ok", 0)
    /\ UNCHANGED <<overflow_checks, mmaps, munmaps, arena, bufs, mem, writes>>

\* Dropping one Arc handle; the last one runs Drop for MmapArea.
DropHandle ==
    /\ strong >= 1
    /\ strong' = strong - 1
    /\ IF strong = 1
       THEN /\ munmaps' = munmaps \o drop_MmapArea(arena[1])
            /\ arena' = <<>>
            /\ mem' = IF drop_MmapArea(arena[1]) = <<>> THEN mem ELSE ZeroMem(0, 0)
       ELSE UNCHANGED <<munmaps, arena, mem>>
    /\ last' = Call("drop_area", "ok", 0)
    /\ UNCHANGED <<overflow_checks, mmaps, bufs, writes>>

Live(i) == i \in DOMAIN bufs /\ bufs[i].alive

\* buf.set_len(len)
SetLen(i, len) ==
    /\ Live(i)
    /\ LET r == set_len(bufs[i], len) IN
        /\ bufs' = [bufs EXCEPT ![i] = r.buf]
        /\ last' = Call("set_len", r.res, 0)
    /\ UNCHANGED <<overflow_checks, mmaps, munmaps, arena, strong, mem, writes>>

\* buf.set_headroom(headroom)
SetHeadroom(i, headroom) ==
    /\ Live(i)
    /\ LET r == set_headroom(bufs[i], headroom) IN
        /\ bufs' = [bufs EXCEPT ![i] = r.buf]
        /\ last' = Call("set_headroom", r.res, 0)
    /\ UNCHANGED <<overflow_checks, mmaps, munmaps, arena, strong, mem, writes>>

\* *buf.get_user_mut() = u
SetUser(i, u) ==
    /\ Live(i)
    /\ bufs' = [bufs EXCEPT ![i] = get_user_mut(bufs[i], u)]
    /\ last' = Call("set_user", "ok", 0)
    /\ UNCHANGED <<overflow_checks, mmaps, munmaps, arena, strong, mem, writes>>

\* slice[k] = v through a slice a buffer handed out.  Indexing past the slice
\* panics; storing into a released mapping is undefined: the store faults or
\* lands in whatever the address now holds.
Store(op, s, k, v) ==
    /\ writes < MaxWrites
    /\ IF ~s.ok \/ k >= s.len
       THEN /\ last' = Call(op, "panic", 0)
            /\ UNCHANGED <<mem, writes>>
       ELSE IF ~Mapped
       THEN /\ \E o \in {"segv", "stray"} : last' = Call(op, o, 0)
            /\ UNCHANGED <<mem, writes>>
       ELSE /\ mem' = [mem EXCEPT ![s.ptr + k] = v]
            /\ writes' = writes + 1
            /\ last' = Call(op, "ok", 0)
    /\ UNCHANGED <<overflow_checks, mmaps, munmaps, arena, strong, bufs>>

\* buf.get_data_mut()[k] = v
WriteData(i, k, v) ==
    /\ Live(i)
    /\ Store("write_data", get_data_mut(bufs[i]), k, v)

\* buf.get_data_with_headroom_mut()[k] = v
WriteDataWithHeadroom(i, k, v) ==
    /\ Live(i)
    /\ Store("write_data_with_headroom", get_data_with_headroom_mut(bufs[i]), k, v)

\* Mutant of DropBuf: the buffer releases its own slot when it is dropped.
DropBuf_unmapping(i) ==
    /\ Live(i)
    /\ bufs' = [bufs EXCEPT ![i] = drop_BufMmap(bufs[i])]
    /\ munmaps' = munmaps \o <<[addr |-> bufs[i].data.ptr, len |-> bufs[i].data.len]>>
    /\ last' = Call("drop_buf", "ok", 0)
    /\ UNCHANGED <<overflow_checks, mmaps, arena, strong, mem, writes>>

\* drop(buf)
DropBuf(i) ==
    /\ Live(i)
    /\ bufs' = [bufs EXCEPT ![i] = drop_BufMmap(bufs[i])]
    /\ last' = Call("drop_buf", "ok", 0)
    /\ UNCHANGED <<overflow_checks, mmaps, munmaps, arena, strong, mem, writes>>

\* area.get_ptr() / get_buf_num() / get_buf_len(), from any holder of a handle.
GetPtr ==
    /\ strong >= 1
    /\ last' = Call("get_ptr", "ok", get_ptr(arena[1]))
    /\ UNCHANGED <<overflow_checks, mmaps, munmaps, arena, strong, bufs, mem, writes>>

GetBufNum ==
    /\ strong >= 1
    /\ last' = Call("get_buf_num", "ok", get_buf_num(arena[1]))
    /\ UNCHANGED <<overflow_checks, mmaps, munmaps, arena, strong, bufs, mem, writes>>

GetBufLen ==
    /\ strong >= 1
    /\ last' = Call("get_buf_len", "ok", get_buf_len(arena[1]))
    /\ UNCHANGED <<overflow_checks, mmaps, munmaps, arena, strong, bufs, mem, writes>>

\* The arena's lifecycle and the buffers' fields.
Next ==
    \/ \E n \in BufNums, l \in 0..MaxBufLen, h \in BOOLEAN :
        (n <= 1 \/ l <= MaxSharedLen) /\ New(n, l, [huge_tlb |-> h])
    \/ CloneHandle
    \/ DropHandle
    \/ \E i \in BufNums, len \in 0..U16_MAX : SetLen(i, len)
    \/ \E i \in BufNums, n \in HeadroomArgs :
        Live(i) /\ n <= bufs[i].data.len + MaxOver /\ SetHeadroom(i, n)
    \/ \E i \in BufNums : DropBuf(i)
    \/ GetPtr
    \/ GetBufNum
    \/ GetBufLen

Spec == Init /\ [][Next]_vars

\* The bytes of the slots: stores through the buffers' slices, while headrooms
\* move and buffers and the arena are dropped.
NextMem ==
    \/ \E n \in BufNums, l \in 0..MaxBufLen, h \in BOOLEAN :
        (n <= 1 \/ l <= MaxSharedLen) /\ l <= MaxMemLen /\ New(n, l, [huge_tlb |-> h])
    \/ DropHandle
    \/ \E i \in BufNums, n \in HeadroomArgs :
        Live(i) /\ n <= bufs[i].data.len + MaxOver /\ SetHeadroom(i, n)
    \/ \E i \in BufNums, k \in 0..MaxBufLen, v \in Bytes : WriteData(i, k, v)
    \/ \E i \in BufNums, k \in 0..MaxBufLen, v \in Bytes : WriteDataWithHeadroom(i, k, v)
    \/ \E i \in BufNums : DropBuf(i)

SpecMem == Init /\ [][NextMem]_vars

\* The fields of the buffers of one arena, as a ring recycles its slots: the
\* length, the headroom and the metadata are set over and over and the first
\* byte of the slot is written.
NextFields ==
    \/ \E n \in BufNums, l \in 0..MaxBufLen, h \in BOOLEAN :
        (n <= 1 \/ l <= MaxSharedLen) /\ l <= MaxMemLen /\ New(n, l, [huge_tlb |-> h])
    \/ \E i \in BufNums, len \in 0..U16_MAX : SetLen(i, len)
    \/ \E i \in BufNums, n \in HeadroomArgs :
        Live(i) /\ n <= bufs[i].data.len + MaxOver /\ SetHeadroom(i, n)
    \/ \E i \in BufNums, u \in Users : SetUser(i, u)
    \/ \E i \in BufNums : WriteDataWithHeadroom(i, 0, MaxByte)

SpecFields == Init /\ [][NextFields]_vars

\* ================================================================== claims
LiveBufs == {i \in DOMAIN bufs : bufs[i].alive}

\* The arena was constructed: mmap succeeded.
Constructed == mmaps # <<>> /\ mmaps[1].ret # MAP_FAILED

\* C1: headroom + len never exceeds the slot size (the length of the
\* data_with_headroom() view), in every state a buffer reaches through set_len
\* and set_headroom.  Stated for the buffers that were constructed within the
\* bound (slot length at least the reserved headroom), in a build with
\* overflow checks, where no subtraction wraps.
C1_HeadroomLenWithinSlot ==
    \A i \in DOMAIN bufs :
        overflow_checks /\ get_data_with_headroom(bufs[i]).len >= AF_XDP_RESERVED
            => get_headroom(bufs[i]) + get_len(bufs[i]) <= get_data_with_headroom(bufs[i]).len

\* C2: set_headroom(n) succeeds, and get_headroom() = n afterwards, exactly
\* when n + len <= slot size; otherwise it aborts and leaves the headroom.
\* Stated for the slots of at least twice the reserved headroom, where the
\* guard of set_headroom on a new buffer neither wraps nor panics on its own.
C2_SetHeadroomLeavesRoomForLen ==
    [][last'.op = "set_headroom" =>
       \A i \in BufNums, n \in HeadroomArgs :
          SetHeadroom(i, n) /\ get_data_with_headroom(bufs[i]).len >= 2 * AF_XDP_RESERVED =>
              IF n + get_len(bufs[i]) <= get_data_with_headroom(bufs[i]).len
              THEN last'.res = "ok" /\ get_headroom(bufs'[i]) = n
              ELSE last'.res = "panic" /\ get_headroom(bufs'[i]) = get_headroom(bufs[i])]_vars

\* C3: set_len(x) with x <= get_capacity() succeeds and get_len() = x
\* afterwards; with x > get_capacity(), or when get_capacity() itself aborts,
\* it aborts and the stored length is unchanged (never truncated).
C3_SetLenWithinCapacity ==
    [][last'.op = "set_len" =>
       \A i \in BufNums, x \in 0..U16_MAX :
          SetLen(i, x) =>
              LET cap == get_capacity(bufs[i]) IN
              IF cap.ok /\ x <= cap.val
              THEN last'.res = "ok" /\ get_len(bufs'[i]) = x
              ELSE last'.res = "panic" /\ get_len(bufs'[i]) = get_len(bufs[i])]_vars

\* A set_len to the full capacity was accepted, on a buffer whose headroom moved.
C3_Witness ==
    \E i \in LiveBufs :
        /\ last = Call("set_len", "ok", 0)
        /\ get_capacity(bufs[i]).ok
        /\ get_len(bufs[i]) = get_capacity(bufs[i]).val
        /\ get_len(bufs[i]) > 0
        /\ get_headroom(bufs[i]) # AF_XDP_RESERVED

\* C8: whenever get_capacity() returns, it returns exactly
\* get_data_with_headroom().len() - get_headroom().
C8_CapacityIsViewMinusHeadroom ==
    \A i \in LiveBufs :
        get_capacity(bufs[i]).ok
            => get_capacity(bufs[i]).val
                   = get_data_with_headroom(bufs[i]).len - get_headroom(bufs[i])

\* get_capacity() returned on a buffer whose length and headroom were both set.
C8_Witness ==
    \E i \in LiveBufs :
        /\ get_capacity(bufs[i]).ok
        /\ get_len(bufs[i]) > 0
        /\ get_headroom(bufs[i]) \notin {0, AF_XDP_RESERVED}

\* C4: the mapping is never released while a buffer that views it is alive
\* (and so can still be read or written).
C4_NoBufferOutlivesMapping ==
    munmaps # <<>> => LiveBufs = {}

\* C5: teardown releases the mapping exactly once: at most one munmap call is
\* ever made; it is made when, and only when, the last handle is dropped; and
\* it is passed the address mmap returned and the length that was mapped.
C5_UnmappedExactlyOnce ==
    /\ Len(munmaps) <= 1
    /\ strong >= 1 => munmaps = <<>>
    /\ Constructed /\ strong = 0 => Len(munmaps) = 1
    /\ munmaps # <<>> =>
          /\ Constructed
          /\ munmaps[1] = [addr |-> mmaps[1].ret, len |-> mmaps[1].len]

\* The last handle was dropped and the mapping of two slots released.
C5_Witness ==
    /\ last.op = "drop_area"
    /\ strong = 0
    /\ Len(munmaps) = 1
    /\ Len(bufs) = 2
    /\ munmaps[1].len = 2 * MaxSharedLen

\* The byte k of a slice, in memory m.
ByteOf(m, s, k) == m[s.ptr + k]

\* The mapped addresses of a buffer's view.
ViewOf(b) == {a \in DOMAIN mem : b.data.ptr <= a /\ a < b.data.ptr + b.data.len}

\* The views the buffers hold are the slots of the mapping: view i is
\* [ptr + i*L, ptr + (i+1)*L), inside the mapping, and no two views share a byte.
C6_Layout ==
    arena # <<>> =>
        /\ \A i \in DOMAIN bufs :
              LET view == get_data_with_headroom(bufs[i]) IN
              /\ view.ptr = get_ptr(arena[1]) + (i - 1) * get_buf_len(arena[1])
              /\ view.len = get_buf_len(arena[1])
              /\ mmaps[1].ret <= view.ptr
              /\ view.ptr + view.len <= mmaps[1].ret + mmaps[1].len
        /\ \A i, j \in DOMAIN bufs :
              LET vi == get_data_with_headroom(bufs[i])
                  vj == get_data_with_headroom(bufs[j]) IN
              i # j => vi.ptr + vi.len <= vj.ptr \/ vj.ptr + vj.len <= vi.ptr

\* C6: slots are disjoint and inside the mapping: after a successful new, and
\* at every store, the view of buffer i is exactly [i*L, (i+1)*L) of the
\* mapping and shares no byte with another view; a byte stored through buffer i
\* is read back from buffer i, and every byte of every other buffer's view is
\* unchanged.
C6_SlotsDisjoint ==
    [][/\ last'.op = "new" /\ last'.res = "ok" => C6_Layout'
       /\ last'.op = "write_data" /\ last'.res = "ok" =>
             /\ C6_Layout
             /\ \A i \in LiveBufs, k \in 0..MaxBufLen, v \in Bytes :
                   k < get_data_with_headroom(bufs[i]).len /\ WriteData(i, k, v) =>
                       /\ ByteOf(mem', get_data(bufs'[i]), k) = v
                       /\ \A j \in DOMAIN bufs \ {i} : \A a \in ViewOf(bufs[j]) : mem'[a] = mem[a]
       /\ last'.op = "write_data_with_headroom" /\ last'.res = "ok" =>
             /\ C6_Layout
             /\ \A i \in LiveBufs, k \in 0..MaxBufLen, v \in Bytes :
                   k < get_data_with_headroom(bufs[i]).len /\ WriteDataWithHeadroom(i, k, v) =>
                       /\ ByteOf(mem', get_data_with_headroom(bufs'[i]), k) = v
                       /\ \A j \in DOMAIN bufs \ {i} : \A a \in ViewOf(bufs[j]) : mem'[a] = mem[a]
      ]_vars

\* A non-zero byte was stored through the second of two buffers, at the last
\* byte of its slot.
C6_Witness ==
    /\ last.res = "ok"
    /\ last.op \in {"write_data", "write_data_with_headroom"}
    /\ Len(bufs) = 2
    /\ ByteOf(mem, get_data_with_headroom(bufs[2]), bufs[2].data.len - 1) = MaxByte
    /\ \A a \in ViewOf(bufs[1]) : mem[a] = 0

\* C7: a successful new(N, L, options) returns exactly N buffers; buffer i has
\* addr = i * L, len = 0, headroom = AF_XDP_RESERVED, a view of L bytes, default
\* metadata and get_data().len() = L - AF_XDP_RESERVED; the arena reports
\* get_buf_num() = N and get_buf_len() = L.
C7_NewReturnsTheSlots ==
    [][last'.op = "new" /\ last'.res = "ok" =>
       \A n \in BufNums, l \in 0..MaxBufLen, h \in BOOLEAN :
          New(n, l, [huge_tlb |-> h]) =>
              /\ Len(bufs') = n
              /\ get_buf_num(arena'[1]) = n
              /\ get_buf_len(arena'[1]) = l
              /\ \A i \in 1..n :
                    /\ bufs'[i].addr = (i - 1) * l
                    /\ get_len(bufs'[i]) = 0
                    /\ get_headroom(bufs'[i]) = AF_XDP_RESERVED
                    /\ get_data_with_headroom(bufs'[i]).len = l
                    /\ get_user(bufs'[i]) = UserDefault
                    /\ get_data(bufs'[i]).ok
                    /\ get_data(bufs'[i]).len = l - AF_XDP_RESERVED]_vars

\* C9: when mmap returns MAP_FAILED, new returns the error, there is no arena
\* handle and no buffer, and no munmap call is ever made.
C9_FailedMappingIsNeverReleased ==
    mmaps # <<>> /\ mmaps[1].ret = MAP_FAILED =>
        /\ last = Call("new", "err", 0)
        /\ arena = <<>>
        /\ strong = 0
        /\ bufs = <<>>
        /\ munmaps = <<>>

\* The kernel refused a mapping of non-zero length.
C9_Witness ==
    /\ mmaps # <<>>
    /\ mmaps[1].ret = MAP_FAILED
    /\ mmaps[1].len > 0

\* C10: after construction no field of the arena changes until teardown, under
\* any interleaving of the getters, of handle clones and drops and of buffer
\* mutations; get_ptr / get_buf_num / get_buf_len return the values fixed at
\* construction (the address mmap returned, the number of buffers built, the
\* slot length that was mapped); only new and the last drop write the arena.
C10_ArenaImmutable ==
    [][/\ arena # <<>> /\ arena' # <<>> => arena' = arena
       /\ arena' # arena => last'.op \in {"new", "drop_area"}
       /\ last'.op = "get_ptr" => last'.ret = mmaps[1].ret
       /\ last'.op = "get_buf_num" => last'.ret = Len(bufs)
       /\ last'.op = "get_buf_len" => last'.ret * Len(bufs) = mmaps[1].len
      ]_vars

\* get_buf_len was called through one of two handles after a buffer's length
\* and headroom were changed.
C10_Witness ==
    /\ last.op = "get_buf_len"
    /\ strong = 2
    /\ \E i \in LiveBufs : get_len(bufs[i]) > 0 /\ get_headroom(bufs[i]) # AF_XDP_RESERVED

\* C11: dropping a buffer is a no-op: a drop of any buffer, in any state, makes
\* no munmap call, changes no byte of the mapping, and leaves the arena, the
\* handle count and every other buffer as they were; the only step that makes
\* a munmap call is the drop of the arena.
C11_DropBufIsNoOp ==
    [][/\ last'.op = "drop_buf" =>
             /\ munmaps' = munmaps
             /\ mmaps' = mmaps
             /\ mem' = mem
             /\ arena' = arena
             /\ strong' = strong
             /\ \E i \in LiveBufs :
                   /\ DropBuf(i)
                   /\ \A j \in DOMAIN bufs \ {i} : bufs'[j] = bufs[j]
                   /\ get_data_with_headroom(bufs'[i]) = get_data_with_headroom(bufs[i])
       /\ munmaps' # munmaps => last'.op = "drop_area"
      ]_vars

\* Both buffers of an arena were dropped while the mapping, holding a byte
\* that was written, is still there.
C11_Witness ==
    /\ last.op = "drop_buf"
    /\ Len(bufs) = 2
    /\ LiveBufs = {}
    /\ Mapped
    /\ \E a \in DOMAIN mem : mem[a] = MaxByte

\* C12: get_capacity() aborts exactly when view size - headroom is above the
\* largest value of the length type, and otherwise returns that difference
\* exactly, on every buffer of every arena new returned.
C12_CapacityFatalOnlyAboveU16 ==
    \A i \in LiveBufs :
        LET d == get_data_with_headroom(bufs[i]).len - get_headroom(bufs[i]) IN
        IF d > U16_MAX
        THEN ~get_capacity(bufs[i]).ok
        ELSE get_capacity(bufs[i]).ok /\ get_capacity(bufs[i]).val = d

\* C13: get_data() / get_data_mut() are view[headroom:] and
\* get_data_with_headroom() / _mut() are the whole view, for the headroom the
\* buffer has after every step that changes a buffer or a byte: get_data() has view size - headroom bytes and
\* its byte k is byte headroom + k of get_data_with_headroom() (slicing aborts
\* when the headroom is past the view's end, as view[headroom:] does); a byte
\* stored at k through get_data_mut() is read at headroom + k of the whole
\* view, and a byte stored at k >= headroom through
\* get_data_with_headroom_mut() is read at k - headroom of get_data().
C13_DataIsViewFromHeadroom ==
    [][/\ mem' # mem \/ bufs' # bufs => \A i \in DOMAIN bufs' :
             LET b == bufs'[i]
                 view == get_data_with_headroom(b)
                 h == get_headroom(b) IN
             /\ view = Slice(b.data.ptr, b.data.len)
             /\ get_data_with_headroom_mut(b) = view
             /\ get_data_mut(b) = get_data(b)
             /\ IF h <= view.len
                THEN /\ get_data(b).ok
                     /\ get_data(b).len = view.len - h
                     /\ Mapped' =>
                           \A k \in 0..(view.len - h - 1) :
                               ByteOf(mem', get_data(b), k) = ByteOf(mem', view, h + k)
                ELSE ~get_data(b).ok
       /\ last'.op = "write_data" /\ last'.res = "ok" =>
             \A i \in LiveBufs, k \in 0..MaxBufLen, v \in Bytes :
                 k < get_data_with_headroom(bufs[i]).len /\ WriteData(i, k, v) =>
                     ByteOf(mem', get_data_with_headroom(bufs'[i]), get_headroom(bufs'[i]) + k) = v
       /\ last'.op = "write_data_with_headroom" /\ last'.res = "ok" =>
             \A i \in LiveBufs, k \in 0..MaxBufLen, v \in Bytes :
                 k < get_data_with_headroom(bufs[i]).len /\ k >= get_headroom(bufs[i]) /\ WriteDataWithHeadroom(i, k, v) =>
                     ByteOf(mem', get_data(bufs'[i]), k - get_headroom(bufs'[i])) = v
      ]_vars

\* A byte was stored through get_data_mut() and the headroom was then moved
\* down, so that the byte is seen at another index of get_data().
C13_Witness ==
    /\ last = Call("set_headroom", "ok", 0)
    /\ Mapped
    /\ \E i \in LiveBufs :
          /\ get_headroom(bufs[i]) < AF_XDP_RESERVED
          /\ get_data(bufs[i]).ok
          /\ get_data(bufs[i]).len > AF_XDP_RESERVED
          /\ ByteOf(mem, get_data(bufs[i]), AF_XDP_RESERVED - get_headroom(bufs[i])) = MaxByte

\* C14: the mutators touch only their own field.  A set_len step changes no
\* field of any buffer but the len of the buffer it is called on, which keeps
\* its addr, headroom, view and metadata, and changes no byte; a set_headroom
\* step changes no field but that buffer's headroom, and no byte; a call that
\* aborts changes nothing at all; and no step after construction changes the
\* addr of a buffer.
C14_MutatorsTouchOwnField ==
    [][/\ last'.op = "set_len" =>
             /\ mem' = mem
             /\ last'.res # "ok" => bufs' = bufs
             /\ \A i \in DOMAIN bufs :
                   bufs'[i] = [bufs[i] EXCEPT !.len = get_len(bufs'[i])]
       /\ last'.op = "set_headroom" =>
             /\ mem' = mem
             /\ last'.res # "ok" => bufs' = bufs
             /\ \A i \in DOMAIN bufs :
                   bufs'[i] = [bufs[i] EXCEPT !.headroom = get_headroom(bufs'[i])]
       /\ bufs # <<>> /\ bufs' # bufs =>
             \A i \in DOMAIN bufs : i \in DOMAIN bufs' /\ bufs'[i].addr = bufs[i].addr
      ]_vars

\* A headroom was accepted on the second buffer of an arena whose length and
\* metadata had been set and into whose slot a byte had been written.
C14_Witness ==
    /\ last = Call("set_headroom", "ok", 0)
    /\ Len(bufs) = 2
    /\ bufs[2].addr > 0
    /\ get_len(bufs[2]) > 0
    /\ get_headroom(bufs[2]) # AF_XDP_RESERVED
    /\ get_user(bufs[2]) # UserDefault
    /\ \E a \in ViewOf(bufs[2]) : mem[a] = MaxByte

\* C15: the guard of set_headroom never underflows: in every state a buffer
\* reaches, 2 * headroom <= view size, so that get_capacity() - headroom, when
\* get_capacity() returns, is computed without going below zero.  Stated for
\* the slots of at least twice the reserved headroom, where it holds of the
\* buffer new returns.
C15_GuardNeverUnderflows ==
    \A i \in LiveBufs :
        LET b == bufs[i]
            cap == get_capacity(b) IN
        get_data_with_headroom(b).len >= 2 * AF_XDP_RESERVED =>
            /\ 2 * get_headroom(b) <= get_data_with_headroom(b).len
            /\ cap.ok => UsizeSub(cap.val, get_headroom(b)) = Ok(cap.val - get_headroom(b))

\* C16: re-applying a buffer's current values is an accepted no-op: in every
\* state a buffer reaches, set_len(get_len()) and set_headroom(get_headroom())
\* both return without aborting and leave the buffer as it was.  Stated for
\* the slots of at least twice the reserved headroom, where the guard of
\* set_headroom on the buffer new returns does not go below zero.
C16_ReapplyIsAcceptedNoOp ==
    \A i \in LiveBufs :
        LET b == bufs[i] IN
        get_data_with_headroom(b).len >= 2 * AF_XDP_RESERVED =>
            /\ set_len(b, get_len(b)) = Done(b)
            /\ set_headroom(b, get_headroom(b)) = Done(b)

\* C17: every buffer a successful new hands out starts in a valid state: its
\* slot is at least as long as the reserved headroom, headroom + len <= slot
\* length, and get_data() and get_capacity() return on it.  Stated for the
\* slot lengths within the length type, where get_capacity() has no other
\* reason to abort.
C17_NewBuffersAreValid ==
    last = Call("new", "ok", 0) =>
        \A i \in DOMAIN bufs :
            LET b == bufs[i] IN
            get_data_with_headroom(b).len <= U16_MAX =>
                /\ AF_XDP_RESERVED <= get_data_with_headroom(b).len
                /\ get_headroom(b) + get_len(b) <= get_data_with_headroom(b).len
                /\ get_data(b).ok
                /\ get_capacity(b).ok

====
